---------------------------- MODULE Spec2Model ----------------------------
(***************************************************************************)
(* Model of the payments analytics repository:                             *)
(*   - src/server.py: the snapshot loader (_load_data), the two filters    *)
(*     (_filter_rows, _filter_rows_by_type) and the analytic operations;   *)
(*   - src/mcp-data-processing/create_training_data.py: clean_number and   *)
(*     the wide-to-long merge that writes the snapshot.                    *)
(*                                                                         *)
(* Python strings whose ORDER or SHAPE matters (months, brand ids, column  *)
(* suffixes, cell texts) are sequences of character codes (ASCII), so that *)
(* "<=" on strings is the lexicographic comparison Python performs.        *)
(* Strings that are only compared for equality (product, type) are TLA+    *)
(* strings.  None and "" are both falsy in every `if month:` /             *)
(* `if product:` / `if brand_id:` test of the code; an absent optional     *)
(* argument is modelled as the empty string.                               *)
(***************************************************************************)
EXTENDS Integers, Sequences, FiniteSets, TLC

VARIABLES
    file,            \* DATA_PATH on disk: [kind, rows]
    data_cache,      \* server.py _data_cache: [set, ref, rows]
    opens,           \* number of open(DATA_PATH) calls made so far
    loads,           \* number of json.load calls that returned a list
    response,        \* the result of the call being answered, or NoResponse
    pc,              \* per thread: position inside _load_data
    held,            \* per thread: the reference _load_data returned to it
    idx,             \* Merger: index of the next FILE_METADATA entry
    df,              \* Merger: what pd.read_csv gave for the current entry
    all_dataframes,  \* Merger: list of reshaped frames
    printed,         \* Merger: diagnostics printed so far
    outfile,         \* Merger: OUTPUT_FILENAME on disk: [written, rows]
    ret              \* Merger: how create_mcp_training_data ended

vars == <<file, data_cache, opens, loads, response, pc, held,
          idx, df, all_dataframes, printed, outfile, ret>>

serverVars == <<file, data_cache, opens, loads, response, pc, held>>
mergerVars == <<idx, df, all_dataframes, printed, outfile, ret>>

---------------------------------------------------------------------------
(* Bounds of the model *)

MaxRows == 2         \* records in a snapshot file
MaxOpens == 2        \* open() attempts of the sequential server
NumThreads == 2      \* concurrent callers of _load_data
NumSources == 2      \* entries of FILE_METADATA that are processed
MaxTableRows == 1    \* rows of a source table

---------------------------------------------------------------------------
(* Strings as sequences of character codes *)

\* Python's str <= str: lexicographic on code points, a prefix is smaller.
RECURSIVE StrLeq(_, _)
StrLeq(a, b) ==
    IF a = <<>> THEN TRUE
    ELSE IF b = <<>> THEN FALSE
    ELSE IF Head(a) < Head(b) THEN TRUE
    ELSE IF Head(a) > Head(b) THEN FALSE
    ELSE StrLeq(Tail(a), Tail(b))

IsDigit(c) == c >= 48 /\ c <= 57

DigitsValue(s) ==
    LET RECURSIVE Val(_, _)
        Val(t, acc) == IF t = <<>> THEN acc
                       ELSE Val(Tail(t), acc * 10 + (Head(t) - 48))
    IN Val(s, 0)

\* server.py _ensure_yyyy_mm: datetime.strptime(month, "%Y-%m") succeeds.
\* %Y is exactly four digits (year >= 1), %m is 1[0-2] | 0[1-9] | [1-9],
\* and the whole string must be consumed.
IsYyyyMm(month) ==
    /\ Len(month) \in {6, 7}
    /\ \A i \in 1..4 : IsDigit(month[i])
    /\ DigitsValue(SubSeq(month, 1, 4)) >= 1
    /\ month[5] = 45
    /\ \A i \in 6..Len(month) : IsDigit(month[i])
    /\ LET m == DigitsValue(SubSeq(month, 6, Len(month)))
       IN  m >= 1 /\ m <= 12

---------------------------------------------------------------------------
(* Input universes of the server *)

M2025_08 == <<50, 48, 50, 53, 45, 48, 56>>     \* "2025-08"
M2025_09 == <<50, 48, 50, 53, 45, 48, 57>>     \* "2025-09"
M2025_10 == <<50, 48, 50, 53, 45, 49, 48>>     \* "2025-10"
MBadSlash == <<50, 48, 50, 53, 47, 48, 57>>    \* "2025/09"
NoStr == <<>>                                   \* None or ""

B10 == <<49, 48>>                               \* brand id "10"
B9 == <<57>>                                    \* brand id "9"

RecordMonths == {M2025_09, M2025_10}
WellFormedMonths == {M2025_08, M2025_09, M2025_10}
MalformedMonths == {MBadSlash}
MonthArgs == WellFormedMonths \cup MalformedMonths
Brands == {B10, B9}
Products == {"CHECKOUT", "PLUGIN"}
Types == {"churn", "profit"}

\* The records a snapshot file is drawn from: every brand, month and type.
\* To keep the universe small each brand uses one product and each month
\* has one (tpt, tpv) pair.
ProductOf(b) == IF b = B10 THEN "CHECKOUT" ELSE "PLUGIN"
TptOf(mo) == IF mo = M2025_09 THEN 100 ELSE 150
TpvOf(mo) == IF mo = M2025_09 THEN 1000 ELSE 500

Rows == { [brand_id |-> b, product |-> ProductOf(b), tpt |-> TptOf(mo),
           tpv |-> TpvOf(mo), month |-> mo, type |-> t] :
          b \in Brands, mo \in RecordMonths, t \in Types }

SeqsUpTo(S, n) == UNION { [1..k -> S] : k \in 0..n }

Snapshots == SeqsUpTo(Rows, MaxRows)

---------------------------------------------------------------------------
(* server.py: the snapshot loader *)

NoCache == [set |-> FALSE, ref |-> 0, rows |-> <<>>]

MissingFile == [kind |-> "missing", rows |-> <<>>]
CorruptFile == [kind |-> "corrupt", rows |-> <<>>]
JsonFile(s) == [kind |-> "json", rows |-> s]

\* What open(DATA_PATH) + json.load(f) gives: the exception raised, or "".
ReadError(f) ==
    IF f.kind = "missing" THEN "FileNotFoundError"
    ELSE IF f.kind = "corrupt" THEN "JSONDecodeError"
    ELSE ""

\* The alternative to LoadData that never tests _data_cache: every call
\* opens the file and stores what it read.
LoadDataAlways(c, f, n) ==
    IF ReadError(f) # ""
    THEN [cache |-> c, opened |-> TRUE, built |-> FALSE, raised |-> ReadError(f)]
    ELSE [cache |-> [set |-> TRUE, ref |-> n + 1, rows |-> f.rows],
          opened |-> TRUE, built |-> TRUE, raised |-> ""]

\* _load_data run to completion by one caller.  c is _data_cache, f the file,
\* n the number of lists json.load has built so far (each is a new object,
\* identified by its ordinal).  Result: the new cache, whether open() was
\* called, whether json.load built a list, the exception that escaped.
LoadData(c, f, n) ==
    IF c.set
    THEN [cache |-> c, opened |-> FALSE, built |-> FALSE, raised |-> ""]
    ELSE IF ReadError(f) # ""
    THEN [cache |-> c, opened |-> TRUE, built |-> FALSE, raised |-> ReadError(f)]
    ELSE [cache |-> [set |-> TRUE, ref |-> n + 1, rows |-> f.rows],
          opened |-> TRUE, built |-> TRUE, raised |-> ""]

---------------------------------------------------------------------------
(* server.py: the filters *)

EnsureYyyyMm(month) == IF IsYyyyMm(month) THEN "" ELSE "ValueError"

ByMonthLeq(rows, month) == SelectSeq(rows, LAMBDA r : StrLeq(r.month, month))
ByMonthEq(rows, month) == SelectSeq(rows, LAMBDA r : r.month = month)
ByProduct(rows, product) == SelectSeq(rows, LAMBDA r : r.product = product)
ByBrand(rows, brand_id) == SelectSeq(rows, LAMBDA r : r.brand_id = brand_id)
ByType(rows, data_type) == SelectSeq(rows, LAMBDA r : r.type = data_type)

\* _filter_rows: load, then validate the month, then filter by
\* month (<=), product and brand_id.  scanned says whether a list
\* comprehension ran over the rows before the function ended.
FilterRows(c, f, n, month, product, brand_id) ==
    LET ld == LoadData(c, f, n)
        r0 == ld.cache.rows
        r1 == IF month # NoStr THEN ByMonthLeq(r0, month) ELSE r0
        r2 == IF product # "" THEN ByProduct(r1, product) ELSE r1
        r3 == IF brand_id # NoStr THEN ByBrand(r2, brand_id) ELSE r2
    IN  IF ld.raised # ""
        THEN ld @@ [scanned |-> FALSE, rows |-> <<>>]
        ELSE IF month # NoStr /\ EnsureYyyyMm(month) # ""
        THEN [ld EXCEPT !.raised = EnsureYyyyMm(month)]
                 @@ [scanned |-> FALSE, rows |-> <<>>]
        ELSE ld @@ [scanned |-> (month # NoStr \/ product # "" \/ brand_id # NoStr),
                    rows |-> r3]

\* The alternative to FilterRowsByType that compares the month with <=, as
\* _filter_rows does.
FilterRowsByTypeLeq(c, f, n, data_type, month, product, brand_id) ==
    LET ld == LoadData(c, f, n)
        r0 == ByType(ld.cache.rows, data_type)
        r1 == IF month # NoStr THEN ByMonthLeq(r0, month) ELSE r0
        r2 == IF product # "" THEN ByProduct(r1, product) ELSE r1
        r3 == IF brand_id # NoStr THEN ByBrand(r2, brand_id) ELSE r2
    IN  IF ld.raised # ""
        THEN ld @@ [scanned |-> FALSE, rows |-> <<>>]
        ELSE IF month # NoStr /\ EnsureYyyyMm(month) # ""
        THEN [ld EXCEPT !.raised = EnsureYyyyMm(month)]
                 @@ [scanned |-> TRUE, rows |-> <<>>]
        ELSE ld @@ [scanned |-> TRUE, rows |-> r3]

\* _filter_rows_by_type: load, filter by type, then validate the
\* month, then filter by month (==), product and brand_id.
FilterRowsByType(c, f, n, data_type, month, product, brand_id) ==
    LET ld == LoadData(c, f, n)
        r0 == ByType(ld.cache.rows, data_type)
        r1 == IF month # NoStr THEN ByMonthEq(r0, month) ELSE r0
        r2 == IF product # "" THEN ByProduct(r1, product) ELSE r1
        r3 == IF brand_id # NoStr THEN ByBrand(r2, brand_id) ELSE r2
    IN  IF ld.raised # ""
        THEN ld @@ [scanned |-> FALSE, rows |-> <<>>]
        ELSE IF month # NoStr /\ EnsureYyyyMm(month) # ""
        THEN [ld EXCEPT !.raised = EnsureYyyyMm(month)]
                 @@ [scanned |-> TRUE, rows |-> <<>>]
        ELSE ld @@ [scanned |-> TRUE, rows |-> r3]

---------------------------------------------------------------------------
(* server.py: arithmetic and formatting used by the operations *)

RECURSIVE SumTpt(_)
SumTpt(rows) == IF rows = <<>> THEN 0 ELSE Head(rows).tpt + SumTpt(Tail(rows))

RECURSIVE SumTpv(_)
SumTpv(rows) == IF rows = <<>> THEN 0 ELSE Head(rows).tpv + SumTpv(Tail(rows))

Abs(x) == IF x < 0 THEN -x ELSE x

\* f"{num / den * 100:.2f}%" for integers num and den # 0: the value rounded
\* to two decimals, ties to even, as [neg, whole, frac] for the text
\* -whole.frac% .  A negative value keeps its sign even when it rounds to
\* 0.00, and 0 / den is -0.0 for a negative den.  (The quotient is taken
\* exactly; the code's binary floating point differs only on values within
\* one ulp of a tie.)
Format2fPct(num, den) ==
    LET n == Abs(num) * 10000
        d == Abs(den)
        q == n \div d
        rem == n % d
        h == IF 2 * rem > d \/ (2 * rem = d /\ q % 2 = 1) THEN q + 1 ELSE q
    IN  [neg |-> IF den > 0 THEN num < 0 ELSE num >= 0,
         whole |-> h \div 100, frac |-> h % 100]

\* f"{0:.2f}%"
ZeroPct == [neg |-> FALSE, whole |-> 0, frac |-> 0]

\* ((b - a) / a * 100) if a else 0, formatted
ChangePct(a, b) == IF a # 0 THEN Format2fPct(b - a, a) ELSE ZeroPct

\* (part / total * 100) if total else 0, formatted
SharePct(part, total) == IF total # 0 THEN Format2fPct(part, total) ELSE ZeroPct

\* sorted(list(set(ids))): the distinct values in ascending string order
RECURSIVE SortedList(_)
SortedList(S) ==
    IF S = {} THEN <<>>
    ELSE LET m == CHOOSE x \in S : \A y \in S : StrLeq(x, y)
         IN  <<m>> \o SortedList(S \ {m})

SeqToSet(s) == { s[i] : i \in DOMAIN s }

---------------------------------------------------------------------------
(* server.py: the operations, each run to completion by one caller *)

NoResponse == [op |-> "none"]

ProductArgs == {"", "CHECKOUT"}
BrandArgs == {NoStr, B10}
OptMonthArgs == {NoStr} \cup MonthArgs

\* What every answer records of the call: the exception that escaped (""
\* when the call returned), whether open(DATA_PATH) was called, whether a
\* list comprehension ran over the records, and the list object used.
Outcome(op, out) ==
    [op |-> op, raised |-> out.raised, opened |-> out.opened,
     scanned |-> out.scanned, ref |-> out.cache.ref]

\* The state change of a completed call.
Finish(out, resp) ==
    /\ data_cache' = out.cache
    /\ opens' = opens + (IF out.opened THEN 1 ELSE 0)
    /\ loads' = loads + (IF out.built THEN 1 ELSE 0)
    /\ response' = resp
    /\ UNCHANGED <<file, pc, held>>
    /\ UNCHANGED mergerVars

\* A request is taken when none is being answered; MaxOpens caps the
\* number of open() calls.
CanServe == response = NoResponse /\ (data_cache.set \/ opens < MaxOpens)

\* A direct call of _load_data.
LoadDataCall ==
    /\ CanServe
    /\ LET out == LoadData(data_cache, file, loads) @@ [scanned |-> FALSE]
       IN  Finish(out, Outcome("_load_data", out))

GetDataProductMonthly ==
    /\ CanServe
    /\ \E month \in MonthArgs, product \in ProductArgs :
         LET out == FilterRows(data_cache, file, loads, month, product, NoStr)
             args == [month |-> month, product |-> product]
         IN  Finish(out,
                 IF out.raised # ""
                 THEN Outcome("get_data_product_monthly", out) @@ args
                 ELSE Outcome("get_data_product_monthly", out) @@ args @@
                      [count |-> Len(out.rows), rows |-> out.rows])

GetChurnCandidates ==
    /\ CanServe
    /\ \E month \in OptMonthArgs, product \in ProductArgs :
         LET out == FilterRowsByType(data_cache, file, loads, "churn",
                                     month, product, NoStr)
             args == [month |-> month, product |-> product]
             churn_brand_ids ==
                 SortedList({ out.rows[i].brand_id : i \in DOMAIN out.rows })
         IN  Finish(out,
                 IF out.raised # ""
                 THEN Outcome("get_churn_candidates", out) @@ args
                 ELSE Outcome("get_churn_candidates", out) @@ args @@
                      [total_candidates |-> Len(churn_brand_ids),
                       brand_ids |-> churn_brand_ids])

\* per_client[bid] = per_client.get(bid, 0) + int(r.get("tpv", 0)), row by row
RECURSIVE PerClient(_, _)
PerClient(rows, acc) ==
    IF rows = <<>> THEN acc
    ELSE LET bid == Head(rows).brand_id
             tpv == Head(rows).tpv
         IN  PerClient(Tail(rows),
                 IF bid \in DOMAIN acc
                 THEN [acc EXCEPT ![bid] = @ + tpv]
                 ELSE acc @@ (bid :> tpv))

\* sum(d.values())
RECURSIVE SumValues(_)
SumValues(d) ==
    IF DOMAIN d = {} THEN 0
    ELSE LET k == CHOOSE x \in DOMAIN d : TRUE
         IN  d[k] + SumValues([x \in DOMAIN d \ {k} |-> d[x]])

CalculateProfitTotal ==
    /\ CanServe
    /\ \E month \in OptMonthArgs, product \in ProductArgs, brand_id \in BrandArgs :
         LET out == FilterRowsByType(data_cache, file, loads, "profit",
                                     month, product, brand_id)
             args == [month |-> month, product |-> product, brand_id |-> brand_id]
             per_client == PerClient(out.rows, <<>>)
         IN  Finish(out,
                 IF out.raised # ""
                 THEN Outcome("calculate_profit_total", out) @@ args
                 ELSE Outcome("calculate_profit_total", out) @@ args @@
                      [per_client |-> per_client,
                       grand_total |-> SumValues(per_client)])

CalculateOverallMetrics ==
    /\ CanServe
    /\ \E month \in OptMonthArgs, product \in ProductArgs, brand_id \in BrandArgs :
         LET out == FilterRows(data_cache, file, loads, month, product, brand_id)
             args == [month |-> month, product |-> product, brand_id |-> brand_id]
         IN  Finish(out,
                 IF out.raised # ""
                 THEN Outcome("calculate_overall_metrics", out) @@ args
                 ELSE Outcome("calculate_overall_metrics", out) @@ args @@
                      [total_tpt |-> SumTpt(out.rows),
                       total_tpv |-> SumTpv(out.rows)])

\* get_monthly_change up to its return: both months are validated first,
\* then _filter_rows runs for month_a and again for month_b.
MonthlyChange(c, f, n, month_a, month_b, product, brand_id) ==
    LET fa == FilterRows(c, f, n, month_a, product, brand_id)
        fb == FilterRows(fa.cache, f, n + (IF fa.built THEN 1 ELSE 0),
                         month_b, product, brand_id)
        tpt_a == SumTpt(fa.rows)
        tpv_a == SumTpv(fa.rows)
        tpt_b == SumTpt(fb.rows)
        tpv_b == SumTpv(fb.rows)
    IN  IF EnsureYyyyMm(month_a) # "" \/ EnsureYyyyMm(month_b) # ""
        THEN [cache |-> c, opened |-> FALSE, built |-> FALSE,
              raised |-> "ValueError", scanned |-> FALSE]
        ELSE IF fa.raised # ""
        THEN [cache |-> fa.cache, opened |-> fa.opened, built |-> fa.built,
              raised |-> fa.raised, scanned |-> fa.scanned]
        ELSE [cache |-> fb.cache, opened |-> fa.opened \/ fb.opened,
              built |-> fa.built \/ fb.built, raised |-> fb.raised,
              scanned |-> fa.scanned \/ fb.scanned,
              tpt_a |-> tpt_a, tpv_a |-> tpv_a, tpt_b |-> tpt_b, tpv_b |-> tpv_b,
              TptGrowthPct |-> ChangePct(tpt_a, tpt_b),
              TpvGrowthPct |-> ChangePct(tpv_a, tpv_b)]

GetMonthlyChange ==
    /\ CanServe
    /\ \E month_a \in MonthArgs, month_b \in MonthArgs,
          product \in ProductArgs, brand_id \in BrandArgs :
         LET out == MonthlyChange(data_cache, file, loads,
                                  month_a, month_b, product, brand_id)
             args == [month_a |-> month_a, month_b |-> month_b,
                      product |-> product, brand_id |-> brand_id]
         IN  Finish(out,
                 IF out.raised # ""
                 THEN Outcome("get_monthly_change", out) @@ args
                 ELSE Outcome("get_monthly_change", out) @@ args @@
                      [tpt_a |-> out.tpt_a, tpv_a |-> out.tpv_a,
                       tpt_b |-> out.tpt_b, tpv_b |-> out.tpv_b,
                       TptGrowthPct |-> out.TptGrowthPct,
                       TpvGrowthPct |-> out.TpvGrowthPct])

\* product_totals[prod]["tpt"] += tpt; product_totals[prod]["tpv"] += tpv
RECURSIVE ProductTotals(_, _)
ProductTotals(rows, acc) ==
    IF rows = <<>> THEN acc
    ELSE LET r == Head(rows)
             cur == IF r.product \in DOMAIN acc THEN acc[r.product]
                    ELSE [tpt |-> 0, tpv |-> 0]
             new == [tpt |-> cur.tpt + r.tpt, tpv |-> cur.tpv + r.tpv]
         IN  ProductTotals(Tail(rows),
                 IF r.product \in DOMAIN acc
                 THEN [acc EXCEPT ![r.product] = new]
                 ELSE acc @@ (r.product :> new))

GetProductMix ==
    /\ CanServe
    /\ \E month \in OptMonthArgs :
         LET out == FilterRows(data_cache, file, loads, month, "", NoStr)
             total_tpt == SumTpt(out.rows)
             total_tpv == SumTpv(out.rows)
             product_totals == ProductTotals(out.rows, <<>>)
             mix == [prod \in DOMAIN product_totals |->
                       [TotalTPT |-> product_totals[prod].tpt,
                        TPT_Pct |-> SharePct(product_totals[prod].tpt, total_tpt),
                        TotalTPV |-> product_totals[prod].tpv,
                        TPV_Pct |-> SharePct(product_totals[prod].tpv, total_tpv)]]
         IN  Finish(out,
                 IF out.raised # ""
                 THEN Outcome("get_product_mix", out) @@ [month |-> month]
                 ELSE Outcome("get_product_mix", out) @@ [month |-> month] @@
                      [GrandTotalTPT |-> total_tpt, GrandTotalTPV |-> total_tpv,
                       mix_by_product |-> mix])

\* The answer leaves the server; the next request can be taken.
Deliver ==
    /\ response # NoResponse
    /\ response' = NoResponse
    /\ UNCHANGED <<file, data_cache, opens, loads, pc, held>>
    /\ UNCHANGED mergerVars

\* create_training_data.py writes the snapshot file (json.dump) where none
\* could be read before.
WriteSnapshotFile ==
    /\ file.kind # "json"
    /\ \E s \in Snapshots : file' = JsonFile(s)
    /\ UNCHANGED <<data_cache, opens, loads, response, pc, held>>
    /\ UNCHANGED mergerVars

Threads == 1..NumThreads

ServerIdle ==
    /\ data_cache = NoCache
    /\ opens = 0
    /\ loads = 0
    /\ response = NoResponse
    /\ pc = [t \in Threads |-> "idle"]
    /\ held = [t \in Threads |-> 0]

MergerIdle ==
    /\ idx = 0
    /\ df = [readable |-> FALSE]
    /\ all_dataframes = <<>>
    /\ printed = {}
    /\ outfile = [written |-> FALSE, rows |-> <<>>]
    /\ ret = "running"

Init ==
    /\ file \in {MissingFile, CorruptFile} \cup { JsonFile(s) : s \in Snapshots }
    /\ ServerIdle
    /\ MergerIdle

Next ==
    \/ LoadDataCall
    \/ GetDataProductMonthly
    \/ GetChurnCandidates
    \/ CalculateProfitTotal
    \/ CalculateOverallMetrics
    \/ GetMonthlyChange
    \/ GetProductMix
    \/ Deliver

Spec == Init /\ [][Next]_vars

\* The loader alone, with a snapshot file that may appear after failed loads.
InitLoader ==
    /\ file \in {MissingFile, CorruptFile}
    /\ ServerIdle
    /\ MergerIdle

NextLoader ==
    \/ LoadDataCall
    \/ GetProductMix
    \/ Deliver
    \/ WriteSnapshotFile

SpecLoader == InitLoader /\ [][NextLoader]_vars

---------------------------------------------------------------------------
(* The loader called by concurrent threads, one step of _load_data at a    *)
(* time: the test of _data_cache, open(), json.load with the assignment,   *)
(* and the return, which reads the global again.                           *)

\* if _data_cache is None
ThreadCheck(t) ==
    /\ pc[t] = "idle"
    /\ pc' = [pc EXCEPT ![t] = IF data_cache.set THEN "return" ELSE "open"]
    /\ UNCHANGED <<file, data_cache, opens, loads, response, held>>
    /\ UNCHANGED mergerVars

\* with open(DATA_PATH, "r", encoding="utf-8") as f
ThreadOpen(t) ==
    /\ pc[t] = "open"
    /\ opens' = opens + 1
    /\ pc' = [pc EXCEPT ![t] = IF file.kind = "missing" THEN "raised" ELSE "load"]
    /\ UNCHANGED <<file, data_cache, loads, response, held>>
    /\ UNCHANGED mergerVars

\* _data_cache = json.load(f): nothing is assigned when the parse raises
ThreadLoad(t) ==
    /\ pc[t] = "load"
    /\ IF ReadError(file) # ""
       THEN /\ pc' = [pc EXCEPT ![t] = "raised"]
            /\ UNCHANGED <<loads, data_cache>>
       ELSE /\ loads' = loads + 1
            /\ data_cache' = [set |-> TRUE, ref |-> loads + 1, rows |-> file.rows]
            /\ pc' = [pc EXCEPT ![t] = "return"]
    /\ UNCHANGED <<file, opens, response, held>>
    /\ UNCHANGED mergerVars

\* return _data_cache
ThreadReturn(t) ==
    /\ pc[t] = "return"
    /\ held' = [held EXCEPT ![t] = data_cache.ref]
    /\ pc' = [pc EXCEPT ![t] = "done"]
    /\ UNCHANGED <<file, data_cache, opens, loads, response>>
    /\ UNCHANGED mergerVars

InitThreads ==
    /\ file \in {MissingFile, CorruptFile} \cup { JsonFile(s) : s \in Snapshots }
    /\ ServerIdle
    /\ MergerIdle

NextThreads ==
    \E t \in Threads :
        \/ ThreadCheck(t)
        \/ ThreadOpen(t)
        \/ ThreadLoad(t)
        \/ ThreadReturn(t)

SpecThreads == InitThreads /\ [][NextThreads]_vars

---------------------------------------------------------------------------
(* Claims about the server *)

IsCall == response = NoResponse /\ response' # NoResponse

MonthOps == {"get_data_product_monthly", "get_churn_candidates",
             "calculate_profit_total", "calculate_overall_metrics",
             "get_product_mix"}

\* The call being answered was given a month that is not YYYY-MM.
MalformedCall ==
    \/ response.op \in MonthOps /\ response.month \in MalformedMonths
    \/ /\ response.op = "get_monthly_change"
       /\ (response.month_a \in MalformedMonths \/ response.month_b \in MalformedMonths)

\* C1: a call with a malformed period ends in a validation error, and in
\* that call no load from storage was started and no record was read or
\* filtered.
C1_ValidationBeforeSnapshot ==
    MalformedCall =>
        /\ response.raised = "ValueError"
        /\ ~response.opened
        /\ ~response.scanned

\* C2: at most one load from storage ever succeeds; once the cache is set
\* every call returns that same list object without opening the file; a
\* call made while the cache is unset opens the file, and when the read
\* fails the error reaches the caller and the cache stays unset.
C2_LoadOnce ==
    [][ /\ loads' <= 1
        /\ data_cache.set =>
              /\ data_cache' = data_cache
              /\ opens' = opens
              /\ loads' = loads
        /\ (IsCall /\ response'.op = "_load_data" /\ data_cache.set) =>
              /\ response'.raised = ""
              /\ response'.ref = data_cache.ref
        /\ (IsCall /\ response'.op = "_load_data" /\ ~data_cache.set) =>
              /\ opens' = opens + 1
              /\ file.kind = "missing" =>
                    response'.raised = "FileNotFoundError" /\ data_cache' = NoCache
              /\ file.kind = "corrupt" =>
                    response'.raised = "JSONDecodeError" /\ data_cache' = NoCache
              /\ file.kind = "json" =>
                    /\ response'.raised = ""
                    /\ data_cache'.set
                    /\ data_cache'.rows = file.rows
                    /\ response'.ref = data_cache'.ref
      ]_vars

\* C2 witness: a load failed, a later one succeeded, and the call being
\* answered got the cached list without opening the file.
C2_Witness ==
    /\ response.op = "_load_data"
    /\ response.raised = ""
    /\ ~response.opened
    /\ response.ref = data_cache.ref
    /\ data_cache.set
    /\ opens = 2
    /\ loads = 1

\* C3: with concurrent callers the snapshot file is loaded at most once and
\* no two callers hold different list objects.
C3_SingleConcurrentLoad ==
    /\ loads <= 1
    /\ \A t1, t2 \in Threads :
          (pc[t1] = "done" /\ pc[t2] = "done") => held[t1] = held[t2]

\* The records of period `month` alone that match the product and brand
\* predicates.
OfPeriod(rows, month, product, brand_id) ==
    SelectSeq(rows, LAMBDA r : /\ r.month = month
                               /\ (product = "" \/ r.product = product)
                               /\ (brand_id = NoStr \/ r.brand_id = brand_id))

\* C4: get_monthly_change reports, for each period, the totals of that
\* period's records alone, and the change (B - A) / A * 100 of those totals
\* with its sign.
C4_PerPeriodTotals ==
    (response.op = "get_monthly_change" /\ response.raised = "") =>
        LET ra == OfPeriod(data_cache.rows, response.month_a,
                           response.product, response.brand_id)
            rb == OfPeriod(data_cache.rows, response.month_b,
                           response.product, response.brand_id)
        IN  /\ response.tpt_a = SumTpt(ra)
            /\ response.tpv_a = SumTpv(ra)
            /\ response.tpt_b = SumTpt(rb)
            /\ response.tpv_b = SumTpv(rb)
            /\ SumTpt(ra) # 0 =>
                  response.TptGrowthPct = Format2fPct(SumTpt(rb) - SumTpt(ra), SumTpt(ra))
            /\ SumTpv(ra) # 0 =>
                  response.TpvGrowthPct = Format2fPct(SumTpv(rb) - SumTpv(ra), SumTpv(ra))

\* C8: when the records of period A total 0 for a metric, that metric's
\* change is reported as 0.00%, whatever period B totals, and the call does
\* not raise; each metric on its own.
C8_ZeroBaseline ==
    (response.op = "get_monthly_change"
        /\ response.month_a \in WellFormedMonths
        /\ response.month_b \in WellFormedMonths
        /\ data_cache.set) =>
        LET ra == OfPeriod(data_cache.rows, response.month_a,
                           response.product, response.brand_id)
        IN  /\ response.raised = ""
            /\ SumTpt(ra) = 0 => response.TptGrowthPct = ZeroPct
            /\ SumTpv(ra) = 0 => response.TpvGrowthPct = ZeroPct

\* The records of type "churn" that match a (month, product) filter.
ChurnMatches(rows, month, product) ==
    { r \in SeqToSet(rows) : /\ r.type = "churn"
                             /\ (month = NoStr \/ r.month = month)
                             /\ (product = "" \/ r.product = product) }

\* C9: get_churn_candidates returns the brand ids of the matching churn
\* records, each once, in ascending order, and total_candidates is the
\* length of that list.
C9_ChurnCandidates ==
    (response.op = "get_churn_candidates" /\ response.raised = "") =>
        LET ids == response.brand_ids
        IN  /\ \A i, j \in DOMAIN ids :
                  i < j => (ids[i] # ids[j] /\ StrLeq(ids[i], ids[j]))
            /\ SeqToSet(ids) =
                  { r.brand_id : r \in ChurnMatches(data_cache.rows,
                                                    response.month, response.product) }
            /\ response.total_candidates = Len(ids)

\* C9 witness: one brand has churn records in two periods and is listed once.
C9_Witness ==
    /\ response.op = "get_churn_candidates"
    /\ response.raised = ""
    /\ response.month = NoStr
    /\ Len(data_cache.rows) = 2
    /\ data_cache.rows[1].type = "churn"
    /\ data_cache.rows[2].type = "churn"
    /\ data_cache.rows[1].brand_id = data_cache.rows[2].brand_id
    /\ data_cache.rows[1].month # data_cache.rows[2].month
    /\ response.total_candidates = 1

\* C10: the type-scoped filter selects exactly the records of that type
\* that the unscoped filter selects for the same predicates; seen on
\* get_churn_candidates, whose list is then the brand ids of the churn
\* records in the unscoped filter's result.
C10_UniformPeriodPredicate ==
    (response.op = "get_churn_candidates"
        /\ response.raised = ""
        /\ response.month \in WellFormedMonths) =>
        LET unscoped == FilterRows(data_cache, file, loads,
                                   response.month, response.product, NoStr).rows
            scoped == FilterRowsByType(data_cache, file, loads, "churn",
                                       response.month, response.product, NoStr).rows
        IN  /\ scoped = ByType(unscoped, "churn")
            /\ SeqToSet(response.brand_ids) =
                  { r.brand_id : r \in SeqToSet(ByType(unscoped, "churn")) }

---------------------------------------------------------------------------
(* create_training_data.py: the metadata, clean_number and the reshaping *)

FILE_METADATA == <<
    [filename |-> "Churn_Checkout.csv", type |-> "churn", product_name |-> "CHECKOUT"],
    [filename |-> "Churn_Direct API.csv", type |-> "churn", product_name |-> "DIRECT API"],
    [filename |-> "Churn_Plugin.csv", type |-> "churn", product_name |-> "PLUGIN"],
    [filename |-> "Profit_Checkout.csv", type |-> "profit", product_name |-> "CHECKOUT"],
    [filename |-> "Profit_Direct API.csv", type |-> "profit", product_name |-> "DIRECT API"],
    [filename |-> "Profit_Plugin_trx _4months.csv", type |-> "profit", product_name |-> "PLUGIN"] >>

\* A cell of a tpt_/tpv_ column: a string (object column), a number, or NaN.
CStr(s) == [kind |-> "str", val |-> s]
CNum(n) == [kind |-> "num", val |-> n]
CNaN == [kind |-> "nan", val |-> 0]

\* re.sub(r'[",]', '', value)
StripQuotesCommas(s) == SelectSeq(s, LAMBDA c : c # 34 /\ c # 44)

\* str.isdigit() on ASCII text: not empty and every character a digit
IsDigitStr(s) == s # <<>> /\ \A i \in DOMAIN s : IsDigit(s[i])

\* The alternative to HasActivity that keeps a record when neither metric
\* is negative.
HasActivityGe(r) == r.tpt >= 0 \/ r.tpv >= 0

\* (df_long['tpt'] > 0) | (df_long['tpv'] > 0)
HasActivity(r) == r.tpt > 0 \/ r.tpv > 0

clean_number(value) ==
    IF value.kind = "str"
    THEN LET v == StripQuotesCommas(value.val)
         IN  IF IsDigitStr(v) THEN DigitsValue(v) ELSE 0
    ELSE IF value.kind = "num" THEN value.val
    ELSE 0

\* English month abbreviations (%b), lower case, as character codes.
MonthAbbr == << <<106, 97, 110>>, <<102, 101, 98>>, <<109, 97, 114>>,
                <<97, 112, 114>>, <<109, 97, 121>>, <<106, 117, 110>>,
                <<106, 117, 108>>, <<97, 117, 103>>, <<115, 101, 112>>,
                <<111, 99, 116>>, <<110, 111, 118>>, <<100, 101, 99>> >>

\* pd.to_datetime(s, format='%b_%Y', errors='coerce') is a date (not NaT)
ParsesAbbrYear(s) ==
    /\ Len(s) = 8
    /\ \E m \in DOMAIN MonthAbbr : SubSeq(s, 1, 3) = MonthAbbr[m]
    /\ s[4] = 95
    /\ \A i \in 5..8 : IsDigit(s[i])
    /\ DigitsValue(SubSeq(s, 5, 8)) >= 1

\* The month string of a column suffix: strftime('%Y-%m') of the parsed
\* date, or, when that raises on NaT, the suffix with '_' replaced by '-'.
MonthStr(s) ==
    IF ParsesAbbrYear(s)
    THEN LET m == CHOOSE k \in DOMAIN MonthAbbr : SubSeq(s, 1, 3) = MonthAbbr[k]
         IN  SubSeq(s, 5, 8) \o <<45, 48 + (m \div 10), 48 + (m % 10)>>
    ELSE [i \in DOMAIN s |-> IF s[i] = 95 THEN 45 ELSE s[i]]

\* The tpt_ columns, in order, that have a tpv_ column of the same suffix.
PairedSuffixes(t) == SelectSeq(t.tpt_cols, LAMBDA sfx : sfx \in t.tpv_cols)

\* df_temp for one suffix: one row per table row, before cleaning.
TempFrame(t, sfx) ==
    [i \in DOMAIN t.rows |->
        [brand_id |-> t.rows[i].brand_id,
         product |-> t.rows[i].category,
         tpt |-> t.rows[i].tpt[sfx],
         tpv |-> t.rows[i].tpv[sfx],
         month |-> MonthStr(sfx)]]

RECURSIVE ConcatAll(_)
ConcatAll(frames) ==
    IF frames = <<>> THEN <<>> ELSE Head(frames) \o ConcatAll(Tail(frames))

\* Lines 45-87 for one table that was read: the exception raised ("" when
\* none) and the frame appended to all_dataframes.  df[[...]] raises
\* KeyError when 'brand_id' or 'Product Category' is not a column;
\* df_long['tpt'] raises KeyError when no tpt_/tpv_ pair was found.
Reshape(t, data_type) ==
    LET sfxs == PairedSuffixes(t)
        df_long == ConcatAll([k \in DOMAIN sfxs |-> TempFrame(t, sfxs[k])])
        cleaned == [i \in DOMAIN df_long |->
                      [brand_id |-> df_long[i].brand_id,
                       product |-> df_long[i].product,
                       tpt |-> clean_number(df_long[i].tpt),
                       tpv |-> clean_number(df_long[i].tpv),
                       month |-> df_long[i].month,
                       type |-> data_type]]
    IN  IF sfxs # <<>> /\ ~(t.has_brand_id /\ t.has_category)
        THEN [raised |-> "KeyError", frame |-> <<>>]
        ELSE IF sfxs = <<>>
        THEN [raised |-> "KeyError", frame |-> <<>>]
        ELSE [raised |-> "", frame |-> SelectSeq(cleaned, HasActivity)]

---------------------------------------------------------------------------
(* Input universe of the Merger *)

SfxSep2025 == <<115, 101, 112, 95, 50, 48, 50, 53>>    \* "sep_2025"
Sfx2025_10 == <<50, 48, 50, 53, 95, 49, 48>>           \* "2025_10"
Suffixes == {SfxSep2025, Sfx2025_10}

Categories == {"CHECKOUT", "Retail"}

\* (tpt cell, tpv cell): "1,0" in quotes with 0; NaN with "x"; -1 with "0";
\* 0 with 2.
CellPairs == { <<CStr(<<34, 49, 44, 48, 34>>), CNum(0)>>,
               <<CNaN, CStr(<<120>>)>>,
               <<CNum(-1), CStr(<<48>>)>>,
               <<CNum(0), CNum(2)>> }

TableRows(sfx) ==
    { [brand_id |-> B10, category |-> c,
       tpt |-> (sfx :> cp[1]), tpv |-> (sfx :> cp[2])] :
      c \in Categories, cp \in CellPairs }

Unreadable == [readable |-> FALSE]

\* Tables with one tpt_/tpv_ pair and all key columns.
GoodTables ==
    UNION { { [readable |-> TRUE, has_brand_id |-> TRUE, has_category |-> TRUE,
               tpt_cols |-> <<sfx>>, tpv_cols |-> {sfx}, rows |-> rs] :
              rs \in SeqsUpTo(TableRows(sfx), MaxTableRows) } :
            sfx \in Suffixes }

\* Tables that read_csv accepts but that have no tpt_/tpv_ pair.
NoPairTables ==
    { [readable |-> TRUE, has_brand_id |-> TRUE, has_category |-> TRUE,
       tpt_cols |-> c[1], tpv_cols |-> c[2], rows |-> <<>>] :
      c \in { <<<<>>, {}>>, <<<<SfxSep2025>>, {}>>, <<<<>>, {SfxSep2025}>> } }

\* Tables that read_csv accepts but that lack a key column.
NoKeyTables ==
    { [readable |-> TRUE, has_brand_id |-> k[1], has_category |-> k[2],
       tpt_cols |-> <<SfxSep2025>>, tpv_cols |-> {SfxSep2025}, rows |-> <<>>] :
      k \in { <<FALSE, TRUE>>, <<TRUE, FALSE>> } }

Tables == {Unreadable} \cup GoodTables \cup NoPairTables \cup NoKeyTables

---------------------------------------------------------------------------
(* create_training_data.py: create_mcp_training_data *)

\* One pass of the loop over file_metadata: read the table, skip it with a
\* diagnostic when read_csv raises, else reshape it and append the frame.
\* An exception of the reshaping is not caught and ends the function.
ProcessSource ==
    /\ ret = "running"
    /\ idx < NumSources
    /\ \E t \in Tables :
         LET meta == FILE_METADATA[idx + 1]
             out == Reshape(t, meta.type)
         IN  /\ df' = t
             /\ idx' = idx + 1
             /\ IF ~t.readable
                THEN /\ printed' = printed \cup {meta.filename}
                     /\ UNCHANGED <<all_dataframes, ret>>
                ELSE IF out.raised # ""
                THEN /\ ret' = out.raised
                     /\ UNCHANGED <<all_dataframes, printed>>
                ELSE /\ all_dataframes' = Append(all_dataframes, out.frame)
                     /\ UNCHANGED <<printed, ret>>
    /\ UNCHANGED outfile
    /\ UNCHANGED serverVars

\* After the loop: report failure when no frame was built, else write the
\* concatenated records to the output file.
FinishBuild ==
    /\ ret = "running"
    /\ idx = NumSources
    /\ IF all_dataframes = <<>>
       THEN /\ ret' = "failed"
            /\ UNCHANGED outfile
       ELSE /\ ret' = "written"
            /\ outfile' = [written |-> TRUE, rows |-> ConcatAll(all_dataframes)]
    /\ UNCHANGED <<idx, df, all_dataframes, printed>>
    /\ UNCHANGED serverVars

InitMerge ==
    /\ file = MissingFile
    /\ ServerIdle
    /\ MergerIdle

NextMerge ==
    \/ ProcessSource
    \/ FinishBuild

SpecMerge == InitMerge /\ [][NextMerge]_vars

---------------------------------------------------------------------------
(* Claims about the Merger *)

\* The table of the pass just made was read and reshaped into a frame.
JustReshaped ==
    /\ ret = "running"
    /\ idx > 0
    /\ df.readable
    /\ all_dataframes # <<>>

LastFrame == all_dataframes[Len(all_dataframes)]

\* C5: every record reshaped from a table carries the product_name of the
\* table's FILE_METADATA entry.
C5_ProductLabel ==
    JustReshaped =>
        \A i \in DOMAIN LastFrame :
            LastFrame[i].product = FILE_METADATA[idx].product_name

\* Row i of the table just read has a zero count and a zero volume after
\* normalization, in its one period.
ZeroRow(i) ==
    \A sfx \in SeqToSet(PairedSuffixes(df)) :
        /\ clean_number(df.rows[i].tpt[sfx]) = 0
        /\ clean_number(df.rows[i].tpv[sfx]) = 0

\* C6: every record built or written has tpt > 0 or tpv > 0; rows whose
\* normalized count and volume are both 0 give no record, and a table of
\* such rows only gives an empty frame.
C6_NoZeroActivity ==
    /\ \A k \in DOMAIN all_dataframes : \A i \in DOMAIN all_dataframes[k] :
          all_dataframes[k][i].tpt > 0 \/ all_dataframes[k][i].tpv > 0
    /\ \A i \in DOMAIN outfile.rows :
          outfile.rows[i].tpt > 0 \/ outfile.rows[i].tpv > 0
    /\ JustReshaped =>
          /\ Len(LastFrame) <= Cardinality({ i \in DOMAIN df.rows : ~ZeroRow(i) })
          /\ (\A i \in DOMAIN df.rows : ZeroRow(i)) => LastFrame = <<>>

\* C6 witness: the snapshot was written with a record in it, and the last
\* table had a row, all zero after normalization, that gave no record.
C6_Witness ==
    /\ ret = "written"
    /\ outfile.written
    /\ Len(outfile.rows) >= 1
    /\ df.readable
    /\ df.rows # <<>>
    /\ \A i \in DOMAIN df.rows : ZeroRow(i)
    /\ LastFrame = <<>>

\* C7: a table that cannot be read, or that is structurally malformed, is
\* skipped with a diagnostic and never ends the build; the build reports
\* failure, writing no file, only when every source failed.
C7_SourceFailureNotFatal ==
    /\ ret \in {"running", "written", "failed"}
    /\ (idx > 0 /\ df \in ({Unreadable} \cup NoPairTables \cup NoKeyTables)) =>
          FILE_METADATA[idx].filename \in printed
    /\ ret = "failed" => (~outfile.written /\ all_dataframes = <<>>)
    /\ (ret = "written") => all_dataframes # <<>>

=============================================================================
